---- MODULE Spec2Model ----
(***************************************************************************)
(* Model of examples/intrinsic_persistent_homology.ipynb: the trefoil      *)
(* sampler, the Fermat distance wrapper, the kNN geodesic pipeline and the *)
(* notebook kernel whose cells share global variables.                     *)
(*                                                                         *)
(* Numbers are fixed point: a coordinate or a Euclidean distance is an     *)
(* integer count of 1/Scale units; a Fermat distance for exponent alpha is *)
(* an integer count of 1/Scale^alpha units.  Inf is the "unreachable"      *)
(* entry of a shortest-path matrix.  numpy's global generator is a small   *)
(* congruential generator: what matters is that every draw advances one    *)
(* shared state and that seeding resets it.                                *)
(*                                                                         *)
(* The fermat package and gtda.graphs are not part of the notebook; their  *)
(* graph construction and shortest paths follow the design document        *)
(* (sections 4.2 and 6).  MDS and VietorisRipsPersistence are kept as      *)
(* uninterpreted results of their inputs.                                  *)
(*                                                                         *)
(* Spec is the kernel: any code cell may be executed at any time.  The     *)
(* Euclidean and kNN persistence cells and the kNN cell on the outlier     *)
(* cloud are left out: they read point_cloud, point_cloud_outliers or      *)
(* kNN_matrix and assign only variables no modelled cell reads.            *)
(* SpecFermat and SpecSampler call the notebook's functions on arguments   *)
(* drawn from bounded sets.                                                *)
(***************************************************************************)
EXTENDS Integers, Sequences, FiniteSets, TLC

\* ------------------------------------------------------------------ bounds
\* fixed-point resolution: one unit of the notebook is Scale grid units
Scale == 2
\* largest point cloud handed to the distance functions by the call harness
MaxN == 4
\* largest deformation exponent tried by the call harness
MaxP == 3

\* ------------------------------------------------------------- arithmetic
Inf == 0 - 1
\* a global variable of the kernel that no cell has assigned yet (array-valued)
Unset == << >>

Add(x, y) == IF x = Inf \/ y = Inf THEN Inf ELSE x + y
Leq(x, y) == y = Inf \/ (x # Inf /\ x <= y)
Min2(x, y) == IF Leq(x, y) THEN x ELSE y

RECURSIVE Pow(_, _)
Pow(b, e) == IF e = 0 THEN 1 ELSE b * Pow(b, e - 1)

\* square root rounded down to the grid (exact on perfect squares)
ISqrt(q) == CHOOSE r \in 0..q : r * r <= q /\ (r + 1) * (r + 1) > q

RECURSIVE MinOver(_, _, _)
\* min over l in 1..m of f[l], with Inf as the neutral element
MinOver(f, m, acc) == IF m = 0 THEN acc ELSE MinOver(f, m - 1, Min2(acc, f[m]))

Idx(M) == 1..Len(M)

\* ------------------------------------------- scipy.spatial.distance_matrix
SqDist(a, b) ==
    (a[1] - b[1]) * (a[1] - b[1]) + (a[2] - b[2]) * (a[2] - b[2])
        + (a[3] - b[3]) * (a[3] - b[3])

\* pairwise Euclidean distances of the rows of data, in 1/Scale units
distance_matrix(data) ==
    [i \in 1..Len(data) |-> [j \in 1..Len(data) |-> ISqrt(SqDist(data[i], data[j]))]]

\* --------------------------------------------------- all-pairs shortest paths
MinPlus(A, B) ==
    [i \in Idx(A) |-> [j \in Idx(A) |->
        MinOver([l \in Idx(A) |-> Add(A[i][l], B[l][j])], Len(A), Inf)]]

RECURSIVE PathsUpTo(_, _)
\* shortest paths of at most m edges, W having a zero diagonal
PathsUpTo(W, m) ==
    IF m <= 1 THEN W
    ELSE LET H == PathsUpTo(W, (m + 1) \div 2) IN MinPlus(H, H)

shortest_path(W) == PathsUpTo(W, Len(W) - 1)

\* ----------------------------------------------------- k nearest neighbours
\* number of other points that come before j in i's neighbour order
\* (by distance, ties by index)
Rank(distances, i, j) ==
    Cardinality({l \in Idx(distances) \ {i} :
        \/ distances[i][l] < distances[i][j]
        \/ distances[i][l] = distances[i][j] /\ l < j})

\* j is one of the k nearest neighbours of i
IsNeighbor(distances, k, i, j) == i # j /\ Rank(distances, i, j) < k

\* ------------------------------------------------------------ fermat.Fermat
\* edge of the weighted graph G: either endpoint lists the other
FermatEdge(distances, k, i, j) ==
    IsNeighbor(distances, k, i, j) \/ IsNeighbor(distances, k, j, i)

\* adjacency of G: weight E(i,j)^alpha on the edges, zero diagonal
FermatAdjacency(distances, alpha, k) ==
    [i \in Idx(distances) |-> [j \in Idx(distances) |->
        IF i = j THEN 0
        ELSE IF FermatEdge(distances, k, i, j) THEN Pow(distances[i][j], alpha)
        ELSE Inf]]

\* Fermat(alpha, path_method='D', k).fit(distances).get_distances()
Fermat_fit(distances, alpha, k) == shortest_path(FermatAdjacency(distances, alpha, k))

\* ------------------------------------------------- compute_fermat_distance
\* what a call yields when it ends with an exception instead of returning
Raised == << >>

\* variant: the arguments alpha and k given to Fermat in each other's place
compute_fermat_distance_swapped(data, p, k) == Fermat_fit(distance_matrix(data), k, p)

\* variant: the edge weights of G returned instead of the shortest paths
compute_fermat_distance_unfitted(data, p, k) ==
    FermatAdjacency(distance_matrix(data), p, k)

\* variant: a feasibility check on the exponent before the model is built
compute_fermat_distance_checked(data, p, k) ==
    IF p <= 1 THEN Raised ELSE Fermat_fit(distance_matrix(data), p, k)

compute_fermat_distance(data, p, k) == Fermat_fit(distance_matrix(data), p, k)

\* ------------------------------------- gtda.graphs (kNN geodesic pipeline)
\* KNeighborsGraph(n_neighbors).fit_transform: the sparse adjacency structure,
\* entry (i,j) set when j is one of the n_neighbors nearest points of i
KNeighborsGraph(data, n_neighbors) ==
    LET distances == distance_matrix(data) IN
    [i \in 1..Len(data) |-> [j \in 1..Len(data) |->
        IF IsNeighbor(distances, n_neighbors, i, j) THEN 1 ELSE 0]]

\* GraphGeodesicDistance().fit_transform: all-pairs shortest paths over the
\* stored entries of the adjacency structure, as given
GraphGeodesicDistance(A) ==
    shortest_path([i \in Idx(A) |-> [j \in Idx(A) |->
        IF i = j THEN 0 ELSE IF A[i][j] # 0 THEN A[i][j] ELSE Inf]])

\* -------------------------------------------- numpy global random generator
\* np.random.seed(s): the generator state after seeding
np_random_seed(s) == s % 4

\* one step of the generator; the raw value drawn is the new state (0..3)
RngStep(s) == (5 * s + 3) % 4

RECURSIVE RngDraws(_, _)
\* the n raw values drawn from state s, in order
RngDraws(s, n) == IF n = 0 THEN << >> ELSE << RngStep(s) >> \o RngDraws(RngStep(s), n - 1)

RECURSIVE RngAfter(_, _)
\* the generator state after n draws from state s
RngAfter(s, n) == IF n = 0 THEN s ELSE RngAfter(RngStep(s), n - 1)

\* rounding of num/den (den > 0) to the nearest integer
Round(num, den) == (2 * num + den) \div (2 * den)

\* np.random.normal(0, var, n): bell-shaped multiples of var
np_random_normal(var, n, s) ==
    LET z == << 0, 0 - 1, 1, 0 - 2 >> IN
    [i \in 1..n |-> var * z[RngDraws(s, n)[i] + 1]]

\* np.random.uniform(-var, var, n)
np_random_uniform(var, n, s) ==
    [i \in 1..n |-> (RngDraws(s, n)[i] % (2 * var + 1)) - var]

\* np.random.rand(n): raw/4 in [0, 1), kept as the raw numerator
np_random_rand(n, s) == RngDraws(s, n)

\* ----------------------------------------------------------- generate_noise
\* Python's None, and an ndarray, as values a function can return
None == [is_none |-> TRUE, values |-> << >>]
Array(v) == [is_none |-> FALSE, values |-> v]

NoiseKinds == {"normal", "uniform", "gaussian"}

\* returns the noise vector, or None when neither branch is taken
generate_noise(type_noise, var, n, s) ==
    IF type_noise = "normal" THEN Array(np_random_normal(var, n, s))
    ELSE IF type_noise = "uniform" THEN Array(np_random_uniform(var, n, s))
    ELSE None

\* draws taken from the generator by one generate_noise call
NoiseDraws(type_noise, n) == IF type_noise \in {"normal", "uniform"} THEN n ELSE 0

\* ------------------------------------------------------------------ trefoil
\* Scale * sin(2 pi a / b), rounded to the grid (Bhaskara's rational sine)
SinTurn(a, b) ==
    IF b = 0 THEN 0
    ELSE LET T == a % b
             c == IF 2 * T <= b THEN 2 * T ELSE 2 * T - b
             num == 16 * c * (b - c)
             den == 5 * b * b - 4 * c * (b - c)
             v == Round(Scale * num, den)
         IN IF 2 * T <= b THEN v ELSE 0 - v

CosTurn(a, b) == SinTurn(4 * a + b, 4 * b)

\* np.linspace(0, 2*np.pi, n): phi[i] is (i-1)/PhiDen(n) of a turn
PhiDen(n) == IF n = 1 THEN 1 ELSE n - 1

\* the curve at phi[i]
CurveX(i, n) == SinTurn(i - 1, PhiDen(n)) + 2 * SinTurn(2 * (i - 1), PhiDen(n))
CurveY(i, n) == CosTurn(i - 1, PhiDen(n)) - 2 * CosTurn(2 * (i - 1), PhiDen(n))
CurveZ(i, n) == 0 - SinTurn(3 * (i - 1), PhiDen(n))

\* trefoil(n, type_noise, var) run with the generator in state s: the data
\* returned, or the exception that ends the call, and the generator after it
trefoil(n, type_noise, var, s) ==
    LET d  == NoiseDraws(type_noise, n)
        nx == generate_noise(type_noise, var, n, s)
        ny == generate_noise(type_noise, var, n, RngAfter(s, d))
        nz == generate_noise(type_noise, var, n, RngAfter(s, 2 * d))
    IN IF nx.is_none
       THEN \* ndarray + None at the first coordinate sum
            [status |-> "TypeError", raised_in |-> "trefoil", data |-> << >>, rng |-> s]
       ELSE [status |-> "ok", raised_in |-> "",
             data |-> [i \in 1..n |->
                         << CurveX(i, n) + nx.values[i], CurveY(i, n) + ny.values[i],
                            CurveZ(i, n) + nz.values[i] >>],
             rng |-> RngAfter(s, 3 * d)]

\* =================================================================== state
VARIABLES
    rng,                  \* state of numpy's global random generator
    point_cloud,          \* globals of the notebook kernel ...
    k,
    p,
    kNN_matrix,
    Fermat_matrix,
    diagram_Fermat,
    deformed_pc,
    outliers,
    point_cloud_outliers,
    call,                 \* call harness: the arguments of the calls under test
    ret                   \* call harness: what the calls returned

vars == << rng, point_cloud, k, p, kNN_matrix, Fermat_matrix, diagram_Fermat,
           deformed_pc, outliers, point_cloud_outliers, call, ret >>

kernel == << rng, point_cloud, k, p, kNN_matrix, Fermat_matrix, diagram_Fermat,
             deformed_pc, outliers, point_cloud_outliers >>

\* a fresh kernel: imports and function definitions executed, no data cell yet
KernelStart ==
    /\ rng = 0
    /\ point_cloud = Unset
    /\ k = 0
    /\ p = 0
    /\ kNN_matrix = Unset
    /\ Fermat_matrix = Unset
    /\ diagram_Fermat = Unset
    /\ deformed_pc = Unset
    /\ outliers = Unset
    /\ point_cloud_outliers = Unset

\* ========================================================= notebook kernel
\* np.random.seed argument of the sampling cell
Seed == 1212
\* sample size of the sampling cell (1500 in the notebook)
NSample == 3
\* noise scale of the sampling cell, in grid units (0.18 in the notebook)
NoiseVar == 1
\* the fixed neighbour count of the kNN cells (5 in the notebook)
KSmall == 2
\* number of outliers appended (20 in the notebook)
NOut == 1

\* int(np.log(n)) for n >= 1
FloorLn(n) == IF n < 3 THEN 0 ELSE IF n < 8 THEN 1 ELSE IF n < 21 THEN 2 ELSE 3

\* sklearn MDS(n_components, dissimilarity='precomputed').fit_transform(D):
\* the embedding is determined by D and by the initial configuration drawn
\* from the global generator
MDS_fit_transform(D, n_components, s) ==
    << n_components, RngDraws(s, Len(D) * n_components), D >>

\* Riemmanian_deformation(point_cloud, p, k, n_components)
Riemmanian_deformation(pc, pp, kk, n_components, s) ==
    MDS_fit_transform(compute_fermat_distance(pc, pp, kk), n_components, s)

\* VietorisRipsPersistence(homology_dimensions, metric).fit_transform(X): the
\* diagram is determined by the requested dimensions and the input
VietorisRipsPersistence(homology_dimensions, metric, X) ==
    << homology_dimensions, metric, X >>

\* np.column_stack([(np.random.rand(n_out)-0.5)*5 for _ in range(3)])
OutlierColumn(n_out, s) ==
    [i \in 1..n_out |-> Round((np_random_rand(n_out, s)[i] - 2) * 5 * Scale, 4)]

MakeOutliers(n_out, s) ==
    [i \in 1..n_out |->
        << OutlierColumn(n_out, s)[i],
           OutlierColumn(n_out, RngAfter(s, n_out))[i],
           OutlierColumn(n_out, RngAfter(s, 2 * n_out))[i] >>]

Init ==
    /\ KernelStart
    /\ call = << >>
    /\ ret = << >>

\* variant: the sampling cell without its np.random.seed call
Cell_Sample_unseeded ==
    /\ point_cloud' = trefoil(NSample, "normal", NoiseVar, rng).data
    /\ rng' = trefoil(NSample, "normal", NoiseVar, rng).rng
    /\ UNCHANGED << k, p, kNN_matrix, Fermat_matrix, diagram_Fermat, deformed_pc,
                    outliers, point_cloud_outliers, call, ret >>

\* np.random.seed(1212); point_cloud = trefoil(1500, 'normal', 0.18)
Cell_Sample ==
    /\ point_cloud' = trefoil(NSample, "normal", NoiseVar, np_random_seed(Seed)).data
    /\ rng' = trefoil(NSample, "normal", NoiseVar, np_random_seed(Seed)).rng
    /\ UNCHANGED << k, p, kNN_matrix, Fermat_matrix, diagram_Fermat, deformed_pc,
                    outliers, point_cloud_outliers, call, ret >>

\* k = 5; kNN_matrix = GraphGeodesicDistance()(KNeighborsGraph(k)(point_cloud))
Cell_kNN ==
    /\ k' = KSmall
    /\ kNN_matrix' = IF point_cloud = Unset THEN kNN_matrix
                     ELSE GraphGeodesicDistance(KNeighborsGraph(point_cloud, KSmall))
    /\ UNCHANGED << rng, point_cloud, p, Fermat_matrix, diagram_Fermat, deformed_pc,
                    outliers, point_cloud_outliers, call, ret >>

\* p = 7; Fermat_matrix = compute_fermat_distance(point_cloud, p, int(log(n)))
Cell_Fermat ==
    /\ p' = 7
    /\ Fermat_matrix' = IF point_cloud = Unset THEN Fermat_matrix
                        ELSE compute_fermat_distance(point_cloud, 7, FloorLn(Len(point_cloud)))
    /\ UNCHANGED << rng, point_cloud, k, kNN_matrix, diagram_Fermat, deformed_pc,
                    outliers, point_cloud_outliers, call, ret >>

\* variant: the persistence cell recomputing the distances from point_cloud
Cell_VR_Fermat_recomputing ==
    /\ Fermat_matrix # Unset
    /\ point_cloud # Unset
    /\ diagram_Fermat' =
         VietorisRipsPersistence({0, 1}, "precomputed",
             compute_fermat_distance(point_cloud, 7, FloorLn(Len(point_cloud))))
    /\ UNCHANGED << rng, point_cloud, k, p, kNN_matrix, Fermat_matrix, deformed_pc,
                    outliers, point_cloud_outliers, call, ret >>

\* diagram_Fermat = VietorisRipsPersistence((0, 1), 'precomputed')(Fermat_matrix)
Cell_VR_Fermat ==
    /\ Fermat_matrix # Unset
    /\ diagram_Fermat' = VietorisRipsPersistence({0, 1}, "precomputed", Fermat_matrix)
    /\ UNCHANGED << rng, point_cloud, k, p, kNN_matrix, Fermat_matrix, deformed_pc,
                    outliers, point_cloud_outliers, call, ret >>

\* p = pv; k = int(log(n)); deformed_pc = Riemmanian_deformation(point_cloud, p, k, 3)
DeformCell(pv) ==
    /\ p' = pv
    /\ IF point_cloud = Unset
       THEN UNCHANGED << k, deformed_pc, rng >>
       ELSE /\ k' = FloorLn(Len(point_cloud))
            /\ deformed_pc' =
                 Riemmanian_deformation(point_cloud, pv, FloorLn(Len(point_cloud)), 3, rng)
            /\ rng' = RngAfter(rng, Len(point_cloud) * 3)
    /\ UNCHANGED << point_cloud, kNN_matrix, Fermat_matrix, diagram_Fermat,
                    outliers, point_cloud_outliers, call, ret >>

Cell_Deform_p3 == DeformCell(3)
Cell_Deform_p5 == DeformCell(5)
Cell_Deform_p7 == DeformCell(7)

\* p = 1; k = 5; deformed_pc = Riemmanian_deformation(point_cloud, p, k, 3)
Cell_Deform_p1 ==
    /\ p' = 1
    /\ k' = KSmall
    /\ IF point_cloud = Unset
       THEN UNCHANGED << deformed_pc, rng >>
       ELSE /\ deformed_pc' = Riemmanian_deformation(point_cloud, 1, KSmall, 3, rng)
            /\ rng' = RngAfter(rng, Len(point_cloud) * 3)
    /\ UNCHANGED << point_cloud, kNN_matrix, Fermat_matrix, diagram_Fermat,
                    outliers, point_cloud_outliers, call, ret >>

\* variant: the outliers appended to point_cloud itself
Cell_Outliers_inplace ==
    /\ outliers' = MakeOutliers(NOut, rng)
    /\ rng' = RngAfter(rng, 3 * NOut)
    /\ point_cloud # Unset
    /\ point_cloud' = point_cloud \o MakeOutliers(NOut, rng)
    /\ point_cloud_outliers' = point_cloud'
    /\ UNCHANGED << k, p, kNN_matrix, Fermat_matrix, diagram_Fermat,
                    deformed_pc, call, ret >>

\* n_out = 20; outliers = ...; point_cloud_outliers = np.concatenate(...)
Cell_Outliers ==
    /\ outliers' = MakeOutliers(NOut, rng)
    /\ rng' = RngAfter(rng, 3 * NOut)
    /\ point_cloud_outliers' = IF point_cloud = Unset THEN point_cloud_outliers
                               ELSE point_cloud \o MakeOutliers(NOut, rng)
    /\ UNCHANGED << point_cloud, k, p, kNN_matrix, Fermat_matrix, diagram_Fermat,
                    deformed_pc, call, ret >>

\* p = 7; Fermat_matrix = compute_fermat_distance(point_cloud_outliers, p, int(log(n)))
Cell_Fermat_Outliers ==
    /\ p' = 7
    /\ Fermat_matrix' =
         IF point_cloud_outliers = Unset THEN Fermat_matrix
         ELSE compute_fermat_distance(point_cloud_outliers, 7,
                                      FloorLn(Len(point_cloud_outliers)))
    /\ UNCHANGED << rng, point_cloud, k, kNN_matrix, diagram_Fermat, deformed_pc,
                    outliers, point_cloud_outliers, call, ret >>

\* diagram_Fermat = VietorisRipsPersistence([1], 'precomputed')(Fermat_matrix)
Cell_VR_Fermat_Outliers ==
    /\ Fermat_matrix # Unset
    /\ diagram_Fermat' = VietorisRipsPersistence({1}, "precomputed", Fermat_matrix)
    /\ UNCHANGED << rng, point_cloud, k, p, kNN_matrix, Fermat_matrix, deformed_pc,
                    outliers, point_cloud_outliers, call, ret >>

Next ==
    \/ Cell_Sample
    \/ Cell_kNN
    \/ Cell_Fermat
    \/ Cell_VR_Fermat
    \/ Cell_Deform_p3
    \/ Cell_Deform_p5
    \/ Cell_Deform_p7
    \/ Cell_Deform_p1
    \/ Cell_Outliers
    \/ Cell_Fermat_Outliers
    \/ Cell_VR_Fermat_Outliers

Spec == Init /\ [][Next]_vars

\* ------------------------------------------------------- claims on Spec
\* what a fresh kernel obtains by running the sampling cell, then the outlier
\* cell, then the Fermat cells, with nothing else executed in between
FreshSample == trefoil(NSample, "normal", NoiseVar, np_random_seed(Seed))
FreshOutliers == MakeOutliers(NOut, FreshSample.rng)
FreshFermat == compute_fermat_distance(FreshSample.data, 7, FloorLn(NSample))
FreshFermatOutliers ==
    compute_fermat_distance(FreshSample.data \o FreshOutliers, 7, FloorLn(NSample + NOut))

\* C7: the outlier cell yields n + m three-dimensional points, the first n
\* the curve sample in its order and values, the last m the outliers, and
\* point_cloud, once generated, is changed neither by the append nor by any
\* later step
C7_AppendKeepsSample ==
    [][ /\ (Cell_Outliers /\ point_cloud # Unset) =>
              /\ Len(point_cloud_outliers') = Len(point_cloud) + NOut
              /\ SubSeq(point_cloud_outliers', 1, Len(point_cloud)) = point_cloud
              /\ SubSeq(point_cloud_outliers', Len(point_cloud) + 1,
                        Len(point_cloud) + NOut) = outliers'
              /\ \A i \in 1..(Len(point_cloud) + NOut) : Len(point_cloud_outliers'[i]) = 3
        /\ point_cloud # Unset => point_cloud' = point_cloud ]_vars

\* the append done and a distance matrix computed from the appended cloud
C7_Witness ==
    /\ point_cloud_outliers # Unset
    /\ Len(point_cloud) = NSample
    /\ Len(Fermat_matrix) = NSample + NOut
    /\ deformed_pc # Unset

\* C8 as stated: with the seed fixed, the sample including the appended
\* outliers is the same whatever other cells were executed in between
C8_SeedFixesOutliers ==
    point_cloud_outliers # Unset =>
        point_cloud_outliers = FreshSample.data \o FreshOutliers

\* C8 amended: with the seed fixed, the curve sample is the same whatever
\* other cells were executed in between (the outliers are not)
C8_SeedFixesSample == point_cloud # Unset => point_cloud = FreshSample.data

\* the sample present after cells that draw from the generator have run
C8_Witness ==
    /\ point_cloud # Unset
    /\ deformed_pc # Unset
    /\ outliers # Unset
    /\ rng # FreshSample.rng

Universe ==
    { << 0, 0, 0 >>, << 1, 0, 0 >>, << 2, 0, 0 >>, << 4, 0, 0 >>, << 5, 0, 0 >>,
      << 0, 3, 0 >>, << 4, 3, 0 >> }

\* every pairwise distance of the cloud is a whole number of grid units
Exact(data) ==
    \A i, j \in 1..Len(data) :
        ISqrt(SqDist(data[i], data[j])) * ISqrt(SqDist(data[i], data[j])) = SqDist(data[i], data[j])

Distinct(data) == \A i, j \in 1..Len(data) : i # j => data[i] # data[j]

Clouds ==
    { d \in UNION { [1..n -> Universe] : n \in 2..MaxN } : Distinct(d) /\ Exact(d) }

InitFermat ==
    /\ KernelStart
    /\ call \in { [data |-> d, k |-> kk] : d \in Clouds, kk \in 1..(MaxN - 1) }
    /\ call.k <= Len(call.data) - 1
    /\ ret = [knn |-> Unset, fermat |-> << >>]

\* the record the harness keeps of one call: returned value or exception
Outcome(r) ==
    [status |-> IF r = Raised THEN "infeasible parameter" ELSE "ok", value |-> r]

\* kNN geodesic matrix of the cloud: KNeighborsGraph then GraphGeodesicDistance
CallKnnGeodesic ==
    /\ ret.knn = Unset
    /\ ret' = [ret EXCEPT !.knn = GraphGeodesicDistance(KNeighborsGraph(call.data, call.k))]
    /\ UNCHANGED << kernel, call >>

\* compute_fermat_distance(data, p, k) for the next exponent p = 1, 2, ...
CallFermat ==
    /\ Len(ret.fermat) < MaxP
    /\ ret' = [ret EXCEPT !.fermat =
                 Append(@, Outcome(compute_fermat_distance(call.data, Len(@) + 1, call.k)))]
    /\ UNCHANGED << kernel, call >>

NextFermat == CallKnnGeodesic \/ CallFermat

SpecFermat == InitFermat /\ [][NextFermat]_vars

\* ==================================================== call harness: sampler
\* largest noise scale (in grid units) tried by the call harness
MaxVar == 2

EmptySample == [status |-> "", raised_in |-> "", data |-> << >>, rng |-> 0]

InitSampler ==
    /\ rng \in 0..3
    /\ point_cloud = Unset /\ k = 0 /\ p = 0 /\ kNN_matrix = Unset
    /\ Fermat_matrix = Unset /\ diagram_Fermat = Unset /\ deformed_pc = Unset
    /\ outliers = Unset /\ point_cloud_outliers = Unset
    /\ call \in [n : 1..MaxN, type_noise : NoiseKinds, var : 0..MaxVar]
    /\ ret = [done |-> {}, noise |-> None, sample |-> EmptySample]

\* generate_noise(type_noise, var, n) called on its own
CallGenerateNoise ==
    /\ "generate_noise" \notin ret.done
    /\ ret' = [ret EXCEPT !.done = @ \cup {"generate_noise"},
                          !.noise = generate_noise(call.type_noise, call.var, call.n, rng)]
    /\ rng' = RngAfter(rng, NoiseDraws(call.type_noise, call.n))
    /\ UNCHANGED << point_cloud, k, p, kNN_matrix, Fermat_matrix, diagram_Fermat,
                    deformed_pc, outliers, point_cloud_outliers, call >>

\* trefoil(n, type_noise, var)
CallTrefoil ==
    /\ "trefoil" \notin ret.done
    /\ ret' = [ret EXCEPT !.done = @ \cup {"trefoil"},
                          !.sample = trefoil(call.n, call.type_noise, call.var, rng)]
    /\ rng' = trefoil(call.n, call.type_noise, call.var, rng).rng
    /\ UNCHANGED << point_cloud, k, p, kNN_matrix, Fermat_matrix, diagram_Fermat,
                    deformed_pc, outliers, point_cloud_outliers, call >>

NextSampler == CallGenerateNoise \/ CallTrefoil

SpecSampler == InitSampler /\ [][NextSampler]_vars

\* C6: trefoil with a noise kind other than 'normal' or 'uniform' fails with
\* an "unsupported noise kind" error raised in generate_noise, and returns
\* no point cloud
C6_UnsupportedNoiseKind ==
    ("trefoil" \in ret.done /\ call.type_noise \notin {"normal", "uniform"}) =>
        /\ ret.sample.status = "unsupported noise kind"
        /\ ret.sample.raised_in = "generate_noise"
        /\ ret.sample.data = << >>

\* ------------------------------------------------ claims on SpecFermat
\* exponents p whose call has been made, and the matrix each returned
Tried == 1..Len(ret.fermat)
F(q) == ret.fermat[q].value
HN == 1..Len(call.data)
E_call == distance_matrix(call.data)

IsSquareMatrix(M, n) == Len(M) = n /\ \A i \in 1..n : Len(M[i]) = n

\* C1: the returned matrix is symmetric, has a zero diagonal and satisfies
\* the triangle inequality for every triple, also when the k-nearest-
\* neighbour relation of the input is not symmetric
C1_Metric ==
    \A q \in Tried :
        /\ \A i, j \in HN : F(q)[i][j] = F(q)[j][i]
        /\ \A i \in HN : F(q)[i][i] = 0
        /\ \A i, j, l \in HN : Leq(F(q)[i][j], Add(F(q)[i][l], F(q)[l][j]))

C1_Witness ==
    /\ Len(ret.fermat) >= 2
    /\ \E i, j \in HN : IsNeighbor(E_call, call.k, i, j) /\ ~IsNeighbor(E_call, call.k, j, i)

\* C2: for p = 1 and k = n-1 the returned matrix equals the Euclidean
\* distance matrix of the cloud entry by entry
C2_EuclidAtP1 ==
    (Len(ret.fermat) >= 1 /\ call.k = Len(call.data) - 1) => F(1) = E_call

\* a cloud with a strict triangle, its p = 1, k = n-1 call made
C2_Witness ==
    /\ Len(ret.fermat) >= 1
    /\ call.k = Len(call.data) - 1
    /\ \E i, j, l \in HN : E_call[i][j] < E_call[i][l] + E_call[l][j] /\ i # l /\ l # j /\ i # j

\* C3: for p = 1 and k < n-1 the returned matrix equals, entry by entry, the
\* matrix of KNeighborsGraph(n_neighbors=k) followed by GraphGeodesicDistance
\* (the Fermat entry is in 1/Scale units, the geodesic entry in whole units)
C3_KnnAtP1 ==
    (Len(ret.fermat) >= 1 /\ ret.knn # Unset /\ call.k < Len(call.data) - 1) =>
        \A i, j \in HN :
            IF ret.knn[i][j] = Inf THEN F(1)[i][j] = Inf
            ELSE F(1)[i][j] = Scale * ret.knn[i][j]

RECURSIVE ComponentOf(_, _)
\* the vertices reachable from the set S along the edges Adj of G
ComponentOf(Adj, S) ==
    LET T == S \cup UNION { Adj[i] : i \in S }
    IN IF T = S THEN S ELSE ComponentOf(Adj, T)

\* C5: on a disconnected G no error is raised and an entry is Inf exactly
\* for the pairs in different components, finite for the others
C5_InfIffDisconnected ==
    LET E == distance_matrix(call.data)
        Adj == [i \in HN |-> { j \in HN : FermatEdge(E, call.k, i, j) }]
        Comp == [i \in HN |-> ComponentOf(Adj, {i})]
    IN \A q \in Tried :
        /\ ret.fermat[q].status = "ok"
        /\ IsSquareMatrix(F(q), Len(call.data))
        /\ \A i, j \in HN : (F(q)[i][j] = Inf) <=> (j \notin Comp[i])

C5_Witness ==
    /\ Len(ret.fermat) >= 1
    /\ \E i, j \in HN : F(1)[i][j] = Inf
    /\ \E i, j \in HN : i # j /\ F(1)[i][j] # Inf

\* x / Scale^a <= y / Scale^b, for a <= b
LeqScaled(x, a, y, b) == y = Inf \/ (x # Inf /\ x * Pow(Scale, b - a) <= y)

\* C10 as stated: for 1 < p1 <= p2 no entry for p1 exceeds the entry for p2
C10_MonotoneInP ==
    \A p1, p2 \in Tried : (1 < p1 /\ p1 <= p2) =>
        \A i, j \in HN : LeqScaled(F(p1)[i][j], p1, F(p2)[i][j], p2)

\* no two points of the cloud are closer than one unit
UnitSeparated == \A i, j \in HN : i # j => E_call[i][j] >= Scale

\* C10 amended: the same, for clouds whose points are at least one unit apart
C10_MonotoneWhenSeparated == UnitSeparated => C10_MonotoneInP

C10_Witness ==
    /\ UnitSeparated
    /\ Len(ret.fermat) >= 3
    /\ \E i, j \in HN : F(2)[i][j] # Inf
                        /\ F(2)[i][j] * Scale < F(3)[i][j]

====
